---------------------------- MODULE Spec2Model ----------------------------
(***************************************************************************)
(* Model of shared/idmap/set.go: IdmapSet, an ordered list of Entry        *)
(* (uid/gid mapping between a namespace ID range and a host ID range),     *)
(* with its mutators (AddSafe, Append) and its queries (Equals,            *)
(* ValidRanges, ShiftIntoNs, ShiftFromNs).                                 *)
(*                                                                         *)
(* The Entry type is defined outside set.go: its methods follow section    *)
(* 4.1 of the specification.                                               *)
(***************************************************************************)
EXTENDS Integers, Sequences, FiniteSets

(***************************************************************************)
(* Bounds of the model.                                                    *)
(***************************************************************************)
\* Mutation specification (Spec): first IDs 0..MaxNs / 0..MaxHost,
\* range lengths 0..MaxRange, operations enabled while Len < MaxLen.
MaxNs == 1
MaxHost == 3
MaxRange == 3
MaxLen == 3

\* Query specification (SpecQuery): sets of at most MaxQLen entries with
\* first IDs 0..MaxQNs / 0..MaxQHost and range lengths 1..MaxQRange.
MaxQNs == 2
MaxQHost == 2
MaxQRange == 2
MaxQLen == 2

VARIABLES
    idmap,  \* m.Idmap: the ordered entry list of the set
    op,     \* name of the last operation called on the set
    arg,    \* its argument
    pre,    \* m.Idmap when it was called
    ret     \* what it returned

vars == <<idmap, op, arg, pre, ret>>

(***************************************************************************)
(* Entry (entry.go, modelled from the specification, section 3 and 4.1).   *)
(***************************************************************************)
Entry(isuid, isgid, hostid, nsid, maprange) ==
    [Isuid |-> isuid, Isgid |-> isgid, Hostid |-> hostid, Nsid |-> nsid,
     Maprange |-> maprange]

\* namespace IDs [nsID, nsID+mapRange-1] and host IDs [hostID, hostID+mapRange-1]
NsRange(e) == e.Nsid .. (e.Nsid + e.Maprange - 1)
HostRange(e) == e.Hostid .. (e.Hostid + e.Maprange - 1)

SharedTag(e, i) == (e.Isuid /\ i.Isuid) \/ (e.Isgid /\ i.Isgid)

\* Entry.Intersects: namespace ranges overlap and a tag is shared
EntryIntersects(e, i) == SharedTag(e, i) /\ NsRange(e) \cap NsRange(i) # {}

\* Entry.HostidsIntersect: host ranges overlap for a shared tag
EntryHostidsIntersect(e, i) ==
    SharedTag(e, i) /\ HostRange(e) \cap HostRange(i) # {}

\* Entry.Usable: nil iff mapRange > 0 (the host policy is an external collaborator)
EntryUsable(e) == IF e.Maprange <= 0 THEN "InvalidEntry" ELSE "nil"

\* Entry.shiftIntoNS: host ID -> namespace ID
shiftIntoNS(e, id) ==
    IF id \in HostRange(e)
    THEN [err |-> "nil", id |-> e.Nsid + (id - e.Hostid)]
    ELSE [err |-> "NotInRange", id |-> -1]

\* Entry.shiftFromNS: namespace ID -> host ID
shiftFromNS(e, id) ==
    IF id \in NsRange(e)
    THEN [err |-> "nil", id |-> e.Hostid + (id - e.Nsid)]
    ELSE [err |-> "NotInRange", id |-> -1]

\* Entry.parse: the text is the token tuple <<tag, nsid, hostid, maprange>>
parse(s) ==
    IF s[1] \notin {"u", "g", "b"}
    THEN [err |-> "ParseError", e |-> Entry(FALSE, FALSE, 0, 0, 0)]
    ELSE [err |-> "nil",
          e |-> Entry(s[1] \in {"u", "b"}, s[1] \in {"g", "b"}, s[3], s[2], s[4])]

(***************************************************************************)
(* IdmapSet (set.go).                                                      *)
(***************************************************************************)
\* IdmapSet.Intersects
Intersects(m, i) == \E k \in 1..Len(m) : EntryIntersects(i, m[k])

\* IdmapSet.HostidsIntersect
HostidsIntersect(m, i) == \E k \in 1..Len(m) : EntryHostidsIntersect(i, m[k])

\* IdmapSet.Usable: the first entry's error, nil if every entry is usable
Usable(m) ==
    IF \A k \in 1..Len(m) : EntryUsable(m[k]) = "nil"
    THEN "nil"
    ELSE EntryUsable(m[CHOOSE k \in 1..Len(m) :
                         /\ EntryUsable(m[k]) # "nil"
                         /\ \A j \in 1..(k-1) : EntryUsable(m[j]) = "nil"])

\* mutant of SplitEntry: the remainders are kept whatever their range
SplitEntryKeepAll(e, i) ==
    LET lower == Entry(e.Isuid, e.Isgid, e.Hostid, e.Nsid, i.Nsid - e.Nsid)
        upper == Entry(e.Isuid, e.Isgid,
                       e.Hostid + lower.Maprange + i.Maprange,
                       i.Nsid + i.Maprange,
                       e.Maprange - i.Maprange - lower.Maprange)
    IN  <<lower, i, upper>>

\* what AddSafe appends to result for an entry e that intersects i:
\* the lower remainder of e, i, the upper remainder of e
SplitEntry(e, i) ==
    LET lower == Entry(e.Isuid, e.Isgid, e.Hostid, e.Nsid, i.Nsid - e.Nsid)
        upper == Entry(e.Isuid, e.Isgid,
                       e.Hostid + lower.Maprange + i.Maprange,
                       i.Nsid + i.Maprange,
                       e.Maprange - i.Maprange - lower.Maprange)
    IN  (IF lower.Maprange > 0 THEN <<lower>> ELSE <<>>)
        \o <<i>>
        \o (IF upper.Maprange > 0 THEN <<upper>> ELSE <<>>)

\* the loop of AddSafe from entry k on, with the locals result and added;
\* on the early return result is the buffer built so far
RECURSIVE AddSafeLoop(_, _, _, _, _)
AddSafeLoop(m, i, k, result, added) ==
    IF k > Len(m)
    THEN [err |-> "nil", result |-> IF added THEN result ELSE Append(result, i)]
    ELSE LET e == m[k]
         IN  IF ~EntryIntersects(e, i)
             THEN AddSafeLoop(m, i, k + 1, Append(result, e), added)
             ELSE IF EntryHostidsIntersect(e, i)
                  THEN [err |-> "ErrHostIDIsSubID", result |-> result]
                  ELSE AddSafeLoop(m, i, k + 1, result \o SplitEntry(e, i), TRUE)

\* mutant of AddSafe: the buffer is stored into m.Idmap on the error path too
AddSafePartial(m, i) ==
    LET r == AddSafeLoop(m, i, 1, <<>>, FALSE)
    IN  [err |-> r.err, Idmap |-> r.result]

\* IdmapSet.AddSafe: the error returned and m.Idmap after the call
AddSafe(m, i) ==
    LET r == AddSafeLoop(m, i, 1, <<>>, FALSE)
    IN  [err |-> r.err, Idmap |-> IF r.err = "nil" THEN r.result ELSE m]

\* mutant of IdmapSetAppend: a host-range overlap is rejected too
IdmapSetAppendHostCheck(m, s) ==
    LET p == parse(s)
    IN  IF p.err # "nil" THEN [err |-> p.err, Idmap |-> m]
        ELSE IF Intersects(m, p.e) \/ HostidsIntersect(m, p.e)
             THEN [err |-> "Conflicting id mapping", Idmap |-> m]
             ELSE [err |-> "nil", Idmap |-> Append(m, p.e)]

\* IdmapSet.Append: the error returned and m.Idmap after the call
IdmapSetAppend(m, s) ==
    LET p == parse(s)
    IN  IF p.err # "nil" THEN [err |-> p.err, Idmap |-> m]
        ELSE IF Intersects(m, p.e)
             THEN [err |-> "Conflicting id mapping", Idmap |-> m]
             ELSE [err |-> "nil", Idmap |-> Append(m, p.e)]

\* IdmapSet.Swap
Swap(m, i, j) == [m EXCEPT ![i] = m[j], ![j] = m[i]]

\* IdmapSet.Less: uid entries first, then gid entries, then by Nsid
Less(m, i, j) ==
    IF m[i].Isuid # m[j].Isuid THEN m[i].Isuid
    ELSE IF m[i].Isgid # m[j].Isgid THEN m[i].Isgid
    ELSE m[i].Nsid < m[j].Nsid

\* sort.Sort(m) for a list of at most 12 entries is an insertion sort through
\* Less and Swap: entry j moves down while it is Less than the entry before
RECURSIVE SortSink(_, _)
SortSink(m, j) ==
    IF j > 1 /\ Less(m, j, j - 1) THEN SortSink(Swap(m, j, j - 1), j - 1) ELSE m

RECURSIVE SortFrom(_, _)
SortFrom(m, i) == IF i > Len(m) THEN m ELSE SortFrom(SortSink(m, i), i + 1)

Sort(m) == SortFrom(m, 2)

\* a *IdmapSet: nil, or a set with its entry list
NilSet == [nil |-> TRUE, Idmap |-> <<>>]
SetOf(m) == [nil |-> FALSE, Idmap |-> m]

\* mutant of ExpandEntry: a combined entry is kept as it is
ExpandEntryKeep(e) == <<e>>

\* the entries Equals compares for one entry: a uid+gid entry counts as a
\* uid entry and a gid entry
ExpandEntry(e) ==
    IF e.Isuid /\ e.Isgid
    THEN <<Entry(TRUE, FALSE, e.Hostid, e.Nsid, e.Maprange),
           Entry(FALSE, TRUE, e.Hostid, e.Nsid, e.Maprange)>>
    ELSE <<e>>

RECURSIVE ExpandFrom(_, _)
ExpandFrom(m, k) ==
    IF k > Len(m) THEN <<>> ELSE ExpandEntry(m[k]) \o ExpandFrom(m, k + 1)

\* expandSortIdmap of Equals
expandSortIdmap(input) ==
    LET in == IF input.nil THEN <<>> ELSE input.Idmap
    IN  Sort(ExpandFrom(in, 1))

\* IdmapSet.Equals
Equals(m, other) == expandSortIdmap(m) = expandSortIdmap(other)

IDRange(isuid, isgid, startid, endid) ==
    [Isuid |-> isuid, Isgid |-> isgid, Startid |-> startid, Endid |-> endid]

\* mutant of ExtendRange: the range is extended to the last ID plus one
ExtendRangeOffByOne(ranges, r, mapEntry) ==
    [ranges EXCEPT ![r].Endid = mapEntry.Nsid + mapEntry.Maprange]

\* ValidRanges: the range at index r takes the entry that abuts it
ExtendRange(ranges, r, mapEntry) ==
    [ranges EXCEPT ![r].Endid = ranges[r].Endid + mapEntry.Maprange]

\* the loop of ValidRanges over the sorted copy, from entry k on
RECURSIVE ValidRangesLoop(_, _, _)
ValidRangesLoop(sorted, k, ranges) ==
    IF k > Len(sorted) THEN ranges
    ELSE LET mapEntry == sorted[k]
             found == {r \in 1..Len(ranges) :
                          /\ mapEntry.Isuid = ranges[r].Isuid
                          /\ mapEntry.Isgid = ranges[r].Isgid
                          /\ ranges[r].Endid + 1 = mapEntry.Nsid}
         IN  IF found # {}
             THEN ValidRangesLoop(sorted, k + 1,
                      ExtendRange(ranges,
                                  CHOOSE r \in found : \A q \in found : r <= q,
                                  mapEntry))
             ELSE ValidRangesLoop(sorted, k + 1,
                      Append(ranges,
                             IDRange(mapEntry.Isuid, mapEntry.Isgid, mapEntry.Nsid,
                                     mapEntry.Nsid + mapEntry.Maprange - 1)))

\* IdmapSet.ValidRanges
ValidRanges(m) == ValidRangesLoop(Sort(m), 1, <<>>)

\* mutant of ShiftBy: "out" shifts into the namespace too
ShiftByAlwaysIn(e, id, how) == shiftIntoNS(e, id)

\* one entry's shift, "in" (host to namespace) or "out" (namespace to host)
ShiftBy(e, id, how) == IF how = "in" THEN shiftIntoNS(e, id) ELSE shiftFromNS(e, id)

\* mutant of ShiftStep: a later matching entry replaces the result
ShiftStepLastWins(e, wanted, id, cur, how) ==
    IF wanted
    THEN LET t == ShiftBy(e, id, how) IN IF t.err = "nil" THEN t.id ELSE cur
    ELSE cur

\* doShiftIntoNs, one component (u with Isuid, g with Isgid) at one entry
ShiftStep(e, wanted, id, cur, how) ==
    IF wanted /\ cur = -1
    THEN LET t == ShiftBy(e, id, how) IN IF t.err = "nil" THEN t.id ELSE cur
    ELSE cur

\* the loop of doShiftIntoNs from entry k on, with the locals u and g
RECURSIVE doShiftLoop(_, _, _, _, _, _, _)
doShiftLoop(m, uid, gid, how, k, u, g) ==
    IF k > Len(m) THEN <<u, g>>
    ELSE doShiftLoop(m, uid, gid, how, k + 1,
                     ShiftStep(m[k], m[k].Isuid, uid, u, how),
                     ShiftStep(m[k], m[k].Isgid, gid, g, how))

doShiftIntoNs(m, uid, gid, how) == doShiftLoop(m, uid, gid, how, 1, -1, -1)

\* IdmapSet.ShiftIntoNs and IdmapSet.ShiftFromNs
ShiftIntoNs(m, uid, gid) == doShiftIntoNs(m, uid, gid, "in")
ShiftFromNs(m, uid, gid) == doShiftIntoNs(m, uid, gid, "out")

(***************************************************************************)
(* Inputs of the mutation specification.                                   *)
(***************************************************************************)
Tags == {<<TRUE, FALSE>>, <<FALSE, TRUE>>, <<TRUE, TRUE>>}

Entries ==
    {Entry(t[1], t[2], h, n, r) :
        t \in Tags, h \in 0..MaxHost, n \in 0..MaxNs, r \in 0..MaxRange}

Texts ==
    {<<t, n, h, r>> :
        t \in {"u", "g", "b"}, n \in 0..MaxNs, h \in 0..MaxHost, r \in 0..MaxRange}
    \cup {<<"x", 0, 0, 1>>}

(***************************************************************************)
(* The mutation state machine: a set built from empty by AddSafe/Append.   *)
(***************************************************************************)
Init ==
    /\ idmap = <<>>
    /\ op = "idle"
    /\ arg = <<>>
    /\ pre = <<>>
    /\ ret = "nil"

CallAddSafe(i) ==
    /\ op = "idle"
    /\ Len(idmap) < MaxLen
    /\ LET r == AddSafe(idmap, i)
       IN  /\ idmap' = r.Idmap
           /\ ret' = r.err
    /\ op' = "AddSafe"
    /\ arg' = i
    /\ pre' = idmap

CallAppend(s) ==
    /\ op = "idle"
    /\ Len(idmap) < MaxLen
    /\ LET r == IdmapSetAppend(idmap, s)
       IN  /\ idmap' = r.Idmap
           /\ ret' = r.err
    /\ op' = "Append"
    /\ arg' = s
    /\ pre' = idmap

\* the caller has consumed the result of the last call; the set stays as it is
Done ==
    /\ op # "idle"
    /\ op' = "idle"
    /\ arg' = <<>>
    /\ pre' = <<>>
    /\ ret' = "nil"
    /\ UNCHANGED idmap

Next ==
    \/ \E i \in Entries : CallAddSafe(i)
    \/ \E s \in Texts : CallAppend(s)
    \/ Done

Spec == Init /\ [][Next]_vars


(***************************************************************************)
(* The query state machine: any set of the bounded universe, queried.      *)
(***************************************************************************)
QEntries ==
    {Entry(t[1], t[2], h, n, r) :
        t \in Tags, h \in 0..MaxQHost, n \in 0..MaxQNs, r \in 1..MaxQRange}

\* the IDs handed to the shifts: every ID of the universe, and one beyond
QIds == 0..(MaxQHost + MaxQRange)

\* the lists made of the entries of m in every order
RECURSIVE Permutations(_)
Permutations(m) ==
    IF m = <<>> THEN {<<>>}
    ELSE UNION {{<<m[k]>> \o x :
                    x \in Permutations(SubSeq(m, 1, k - 1) \o SubSeq(m, k + 1, Len(m)))} :
                k \in 1..Len(m)}

\* m with the entries at the indices in S, all of them uid+gid entries,
\* each replaced by its uid half and its gid half
RECURSIVE SplitFrom(_, _, _)
SplitFrom(m, S, k) ==
    IF k > Len(m) THEN <<>>
    ELSE (IF k \in S
          THEN <<Entry(TRUE, FALSE, m[k].Hostid, m[k].Nsid, m[k].Maprange),
                 Entry(FALSE, TRUE, m[k].Hostid, m[k].Nsid, m[k].Maprange)>>
          ELSE <<m[k]>>) \o SplitFrom(m, S, k + 1)

\* the sets obtained from m by splitting uid+gid entries and permuting
Rearrangements(m) ==
    UNION {Permutations(SplitFrom(m, S, 1)) :
              S \in SUBSET {k \in 1..Len(m) : m[k].Isuid /\ m[k].Isgid}}

\* the sets Equals is called with: nil, the rearrangements of m, and m
\* without its first entry
Others(m) ==
    {NilSet} \cup {SetOf(x) : x \in Rearrangements(m)}
    \cup (IF m = <<>> THEN {} ELSE {SetOf(Tail(m))})

InitQuery ==
    /\ \E n \in 0..MaxQLen : idmap \in [1..n -> QEntries]
    /\ op = "idle"
    /\ arg = <<>>
    /\ pre = <<>>
    /\ ret = "nil"

CallEquals(other) ==
    /\ op = "idle"
    /\ op' = "Equals"
    /\ arg' = other
    /\ ret' = Equals(SetOf(idmap), other)
    /\ pre' = idmap
    /\ UNCHANGED idmap

CallValidRanges ==
    /\ op = "idle"
    /\ op' = "ValidRanges"
    /\ arg' = <<>>
    /\ ret' = ValidRanges(idmap)
    /\ pre' = idmap
    /\ UNCHANGED idmap

CallSwap(i, j) ==
    /\ op = "idle"
    /\ op' = "Swap"
    /\ arg' = <<i, j>>
    /\ ret' = "nil"
    /\ pre' = idmap
    /\ idmap' = Swap(idmap, i, j)

CallShiftIntoNs(uid, gid) ==
    /\ op = "idle"
    /\ op' = "ShiftIntoNs"
    /\ arg' = <<uid, gid>>
    /\ ret' = ShiftIntoNs(idmap, uid, gid)
    /\ pre' = idmap
    /\ UNCHANGED idmap

CallShiftFromNs(uid, gid) ==
    /\ op = "idle"
    /\ op' = "ShiftFromNs"
    /\ arg' = <<uid, gid>>
    /\ ret' = ShiftFromNs(idmap, uid, gid)
    /\ pre' = idmap
    /\ UNCHANGED idmap

NextQuery ==
    \/ \E other \in Others(idmap) : CallEquals(other)
    \/ CallValidRanges
    \/ \E i, j \in 1..Len(idmap) : i < j /\ CallSwap(i, j)
    \/ \E uid, gid \in QIds : CallShiftIntoNs(uid, gid)
    \/ \E uid, gid \in QIds : CallShiftFromNs(uid, gid)
    \/ Done

SpecQuery == InitQuery /\ [][NextQuery]_vars

(***************************************************************************)
(* Properties of the mutators, checked under Spec.                         *)
(***************************************************************************)
SameTags(a, b) == a.Isuid = b.Isuid /\ a.Isgid = b.Isgid
NsOverlap(a, b) == NsRange(a) \cap NsRange(b) # {}
HostOverlap(a, b) == HostRange(a) \cap HostRange(b) # {}

\* indices of the entries of m that i intersects, and that it collides with
Hits(m, i) == {k \in 1..Len(m) : EntryIntersects(m[k], i)}
Collisions(m, i) == {k \in Hits(m, i) : EntryHostidsIntersect(m[k], i)}

\* number of positions of m holding e
Count(m, e) == Cardinality({k \in 1..Len(m) : m[k] = e})

\* no two entries sharing a tag overlap in namespace IDs
NsDisjoint(m) ==
    \A j, k \in 1..Len(m) :
        j # k /\ SharedTag(m[j], m[k]) => ~NsOverlap(m[j], m[k])

\* the (tag, namespace ID, host ID) triples a set maps
TagsOf(e) == (IF e.Isuid THEN {"uid"} ELSE {}) \cup (IF e.Isgid THEN {"gid"} ELSE {})
Mapped(m) ==
    UNION {{<<t, n, m[k].Hostid + (n - m[k].Nsid)>> :
               t \in TagsOf(m[k]), n \in NsRange(m[k])} : k \in 1..Len(m)}

\* C1: an AddSafe that meets an entry intersecting newEntry in namespace
\* range (shared tag) and in host range returns ErrHostIDIsSubID, and the
\* entry list is then exactly the list before the call, however many
\* entries were scanned or split before the collision was met.
C1_AddSafeFailureAtomic ==
    op = "AddSafe" =>
        /\ Collisions(pre, arg) # {} => ret = "ErrHostIDIsSubID"
        /\ ret # "nil" => idmap = pre

\* an AddSafe failed after an earlier entry had been split
C1_Witness ==
    /\ op = "AddSafe"
    /\ ret = "ErrHostIDIsSubID"
    /\ \E j \in Hits(pre, arg) \ Collisions(pre, arg) :
           \E k \in Collisions(pre, arg) : j < k

\* C2: in a set built from empty by AddSafe and Append, no two entries with
\* the same tag combination overlap in namespace IDs and no two entries with
\* a shared tag overlap in host IDs.
C2_SetInvariant ==
    \A j, k \in 1..Len(idmap) :
        j # k =>
            /\ SameTags(idmap[j], idmap[k]) => ~NsOverlap(idmap[j], idmap[k])
            /\ SharedTag(idmap[j], idmap[k]) => ~HostOverlap(idmap[j], idmap[k])

\* C3: a successful AddSafe inserts newEntry exactly once: after the
\* unchanged entries that precede the first intersecting entry (and the lower
\* remainder of that entry), or at the end if no entry intersects; also when
\* two or more entries intersect newEntry.
C3_NewEntryOnce ==
    op = "AddSafe" /\ ret = "nil" =>
        /\ Count(idmap, arg) = Count(pre, arg) + 1
        /\ IF Hits(pre, arg) = {}
           THEN idmap = Append(pre, arg)
           ELSE LET f == CHOOSE k \in Hits(pre, arg) :
                             \A j \in Hits(pre, arg) : k <= j
                IN  /\ SubSeq(idmap, 1, f - 1) = SubSeq(pre, 1, f - 1)
                    /\ \E q \in {f, f + 1} \cap DOMAIN idmap : idmap[q] = arg

\* C4: a successful AddSafe on a set with disjoint namespace ranges keeps
\* every (tag, namespace ID) that was mapped and that newEntry does not claim
\* mapped, to the same host ID.
C4_CoveragePreserved ==
    op = "AddSafe" /\ ret = "nil" /\ NsDisjoint(pre) =>
        \A x \in Mapped(pre) :
            ~(x[1] \in TagsOf(arg) /\ x[2] \in NsRange(arg)) =>
                /\ x \in Mapped(idmap)
                /\ \A y \in Mapped(idmap) : y[1] = x[1] /\ y[2] = x[2] => y = x

\* C5: Append rejects a text that does not parse and a parsed entry that
\* intersects an existing entry, leaving the list unchanged; otherwise the
\* list is the previous list with the parsed entry at the end.  An overlap
\* of host ranges alone is no reason to reject.
C5_AppendStrictAtomic ==
    op = "Append" =>
        LET p == parse(arg)
        IN  /\ p.err # "nil" => ret = "ParseError" /\ idmap = pre
            /\ p.err = "nil" /\ Hits(pre, p.e) # {} =>
                   ret = "Conflicting id mapping" /\ idmap = pre
            /\ p.err = "nil" /\ Hits(pre, p.e) = {} =>
                   ret = "nil" /\ idmap = Append(pre, p.e)

\* an Append succeeded although the host range of the entry overlaps the
\* host range of an existing entry with a shared tag
C5_Witness ==
    /\ op = "Append"
    /\ ret = "nil"
    /\ Len(pre) >= 1
    /\ HostidsIntersect(pre, parse(arg).e)

\* the entry a mutator call adds
NewEntry == IF op = "AddSafe" THEN arg ELSE parse(arg).e

AllSplit(m) == SplitFrom(m, 1..Len(m) \cap {k \in 1..Len(m) : m[k].Isuid /\ m[k].Isgid}, 1)

\* b is a with its entries permuted and uid+gid entries split or joined:
\* both have the same entries, with the same multiplicity, once all are split
Rearranged(a, b) ==
    LET x == AllSplit(a)
        y == AllSplit(b)
    IN  /\ Len(x) = Len(y)
        /\ \A k \in 1..Len(x) : Count(x, x[k]) = Count(y, x[k])

\* no two entries, uid+gid entries counted as their halves, have the same
\* tags and the same Nsid
KeysDistinct(m) ==
    LET x == AllSplit(m)
    IN  \A j, k \in 1..Len(x) :
            j # k /\ SameTags(x[j], x[k]) => x[j].Nsid # x[k].Nsid

\* C6 as stated: Equals is true for every set obtained by permuting the
\* entries and splitting uid+gid entries into halves, whatever the set; it
\* is reflexive and symmetric, and nil equals the empty set.
C6_EqualsAnyRearrangement ==
    op = "Equals" =>
        /\ ~arg.nil /\ Rearranged(pre, arg.Idmap) => ret = TRUE
        /\ ret = Equals(arg, SetOf(pre))
        /\ arg.nil /\ pre = <<>> => ret = TRUE

\* C6 amended: the same for the sets in which no two entries, uid+gid
\* entries counted as their two halves, have the same tags and Nsid;
\* reflexivity, symmetry and nil = empty hold for every set.
C6_EqualsRearrangementDistinctKeys ==
    op = "Equals" =>
        /\ KeysDistinct(pre) /\ ~arg.nil /\ Rearranged(pre, arg.Idmap) =>
               ret = TRUE
        /\ arg = SetOf(pre) => ret = TRUE
        /\ ret = Equals(arg, SetOf(pre))
        /\ arg.nil /\ pre = <<>> => ret = TRUE

\* Equals was true of a set and a reordered copy with an entry split
C6_Witness ==
    /\ op = "Equals"
    /\ ret = TRUE
    /\ KeysDistinct(pre)
    /\ ~arg.nil
    /\ Len(pre) = 2
    /\ Len(arg.Idmap) = 3
    /\ arg.Idmap[1] # pre[1]
    /\ arg.Idmap[1].Isuid # arg.Idmap[2].Isuid

\* positive ranges, and disjoint namespace ranges per tag combination
RangesWellFormed(m) ==
    /\ \A k \in 1..Len(m) : m[k].Maprange > 0
    /\ \A j, k \in 1..Len(m) :
           j # k /\ SameTags(m[j], m[k]) => ~NsOverlap(m[j], m[k])

IDs(r) == r.Startid .. r.Endid

\* C7: for a set with positive ranges, disjoint per tag combination, the
\* ranges ValidRanges returns for one tag combination are pairwise disjoint,
\* do not abut, and cover exactly the namespace IDs of the entries of that
\* combination; the result is the same for every stored order.
C7_ValidRangesMinimal ==
    /\ op = "ValidRanges" /\ RangesWellFormed(pre) =>
           \A t \in Tags :
               LET R == {r \in 1..Len(ret) : ret[r].Isuid = t[1] /\ ret[r].Isgid = t[2]}
                   E == {k \in 1..Len(pre) : pre[k].Isuid = t[1] /\ pre[k].Isgid = t[2]}
               IN  /\ \A a, b \in R :
                          a # b => /\ IDs(ret[a]) \cap IDs(ret[b]) = {}
                                   /\ ret[a].Endid + 1 # ret[b].Startid
                   /\ UNION {IDs(ret[r]) : r \in R} = UNION {NsRange(pre[k]) : k \in E}
    /\ op = "Swap" /\ RangesWellFormed(pre) => ValidRanges(idmap) = ValidRanges(pre)

\* two abutting entries, stored the higher one first, gave one range
C7_Witness ==
    /\ op = "ValidRanges"
    /\ RangesWellFormed(pre)
    /\ Len(pre) = 2
    /\ pre[1].Nsid > pre[2].Nsid
    /\ Len(ret) = 1
    /\ ret[1].Endid = pre[1].Nsid + pre[1].Maprange - 1

\* the ID the first entry of m with the tag that covers id maps it to, -1
\* if there is none: namespace ID for "ShiftIntoNs", host ID for "ShiftFromNs"
FirstMatch(m, tag, id, which) ==
    LET from(e) == IF which = "ShiftIntoNs" THEN e.Hostid ELSE e.Nsid
        to(e) == IF which = "ShiftIntoNs" THEN e.Nsid ELSE e.Hostid
        K == {k \in 1..Len(m) :
                 /\ tag \in TagsOf(m[k])
                 /\ from(m[k]) <= id
                 /\ id < from(m[k]) + m[k].Maprange}
    IN  IF K = {} THEN -1
        ELSE LET f == CHOOSE k \in K : \A j \in K : k <= j
             IN  to(m[f]) + (id - from(m[f]))

\* C8: each component of ShiftIntoNs and ShiftFromNs is the result of the
\* first entry in stored order that carries the tag and covers the ID, -1
\* without one; the uid component is independent of gid and conversely.
C8_ShiftFirstMatch ==
    op \in {"ShiftIntoNs", "ShiftFromNs"} =>
        /\ ret[1] = FirstMatch(pre, "uid", arg[1], op)
        /\ ret[2] = FirstMatch(pre, "gid", arg[2], op)

\* two uid entries cover the uid and would map it differently: the first won
C8_Witness ==
    /\ op = "ShiftIntoNs"
    /\ Len(pre) = 2
    /\ pre[1].Isuid /\ pre[2].Isuid
    /\ shiftIntoNS(pre[1], arg[1]).err = "nil"
    /\ shiftIntoNS(pre[2], arg[1]).err = "nil"
    /\ shiftIntoNS(pre[1], arg[1]).id # shiftIntoNS(pre[2], arg[1]).id
    /\ ret[1] = shiftIntoNS(pre[1], arg[1]).id
    /\ ret[2] = -1

\* positive ranges, namespace and host ranges disjoint per shared tag
ShiftWellFormed(m) ==
    /\ \A k \in 1..Len(m) : m[k].Maprange > 0
    /\ \A j, k \in 1..Len(m) :
           j # k /\ SharedTag(m[j], m[k]) =>
               ~NsOverlap(m[j], m[k]) /\ ~HostOverlap(m[j], m[k])

\* C10: on a set with positive ranges whose namespace and host ranges are
\* disjoint per shared tag, a component ShiftIntoNs maps (not -1) is mapped
\* back to the original ID by ShiftFromNs, and conversely.
C10_ShiftRoundTrip ==
    /\ op = "ShiftIntoNs" /\ ShiftWellFormed(pre) =>
           /\ ret[1] # -1 => \A g \in QIds : ShiftFromNs(pre, ret[1], g)[1] = arg[1]
           /\ ret[2] # -1 => \A u \in QIds : ShiftFromNs(pre, u, ret[2])[2] = arg[2]
    /\ op = "ShiftFromNs" /\ ShiftWellFormed(pre) =>
           /\ ret[1] # -1 => \A g \in QIds : ShiftIntoNs(pre, ret[1], g)[1] = arg[1]
           /\ ret[2] # -1 => \A u \in QIds : ShiftIntoNs(pre, u, ret[2])[2] = arg[2]

\* a uid was mapped to another ID by the second of two disjoint entries
C10_Witness ==
    /\ op = "ShiftIntoNs"
    /\ ShiftWellFormed(pre)
    /\ Len(pre) = 2
    /\ pre[1].Isuid /\ pre[2].Isuid
    /\ ret[1] # -1
    /\ ret[1] # arg[1]
    /\ shiftIntoNS(pre[1], arg[1]).err # "nil"

=============================================================================
